---------------------------- MODULE Spec2Model ----------------------------
(* A model of romfu's `switch fs` command (src/main.go, createFS): scan a   *)
(* game library, pick one content subdirectory per title, render the rclone *)
(* union upstream list, export it through RCLONE_CONFIG_* environment       *)
(* variables and run `rclone mount`.                                        *)
(*                                                                          *)
(* Go strings are modelled as sequences of one-character strings, so that   *)
(* prefix tests, path joining, quoting and concatenation are computed the   *)
(* way the code computes them.                                              *)
EXTENDS Integers, Sequences, FiniteSets, TLC

(***************************************************************************)
(* Bounds of the model.                                                    *)
(***************************************************************************)
\* Largest number of entries in the library directory.
MaxChildren == 2

(***************************************************************************)
(* String literals of the program and of the modelled inputs.              *)
(***************************************************************************)
Quote == "\""
StrRw == <<"r", "w">>
StrTitles == <<"t", "i", "t", "l", "e", "s">>
StrMerged == <<"m", "e", "r", "g", "e", "d">>
StrBase == <<"b", "a", "s", "e">>
StrRo == <<"r", "o">>
StrType == <<"T", "Y", "P", "E">>
StrUpstreams == <<"U", "P", "S", "T", "R", "E", "A", "M", "S">>
StrLocal == <<"l", "o", "c", "a", "l">>
StrUnion == <<"u", "n", "i", "o", "n">>
StrRclone == <<"r", "c", "l", "o", "n", "e">>
StrMount == <<"m", "o", "u", "n", "t">>
StrEnvPrefix == <<"R", "C", "L", "O", "N", "E", "_", "C", "O", "N", "F", "I", "G", "_">>

remoteLocal == <<"R", "O", "M", "F", "U", "L", "O", "C", "A", "L">>
remoteUnion == <<"R", "O", "M", "F", "U", "U", "N", "I", "O", "N">>

\* A block list that forgets "titles".
invalidGameDirNamesOnlyRw == <<StrRw>>

invalidGameDirNames == <<StrRw, StrTitles>>

\* The candidate list with the priorities swapped.
validSubdirNamesBaseFirst == <<StrBase, StrMerged>>

validSubdirNames == <<StrMerged, StrBase>>

(***************************************************************************)
(* Inputs: the command line and the library directory on disk.             *)
(***************************************************************************)
\* Values of --input: the same directory, spelled canonically and with a
\* trailing slash.
InputDirs == {<<"/", "l">>, <<"/", "l", "/">>}

\* Value of --output.
OutputDirArg == <<"/", "m">>

\* Entry names a library may hold, in the byte order ioutil.ReadDir sorts by.
NameUniverse ==
    << <<".", "h">>, <<"a", " ", "b">>, <<"g">>, StrRw,
       <<"r", "w", "x">>, StrTitles >>

\* What a path names: nothing, a non-directory, or a directory.
Kinds == {"none", "file", "dir"}

\* An entry of the library: a non-directory has nothing below it.
Children ==
    { c \in [isDir : BOOLEAN, merged : Kinds, base : Kinds] :
        ~c.isDir => (c.merged = "none" /\ c.base = "none") }

\* The entries tried under the n-th name. The names of positions 2, 3 and 5
\* are tried with every content; the hidden and the reserved names as a
\* non-directory, an empty directory and a directory with both subdirectories.
ChildrenOf(n) ==
    IF NameUniverse[n] \in {<<"a", " ", "b">>, <<"g">>, <<"r", "w", "x">>}
    THEN Children
    ELSE { c \in Children : c.merged = c.base /\ c.merged # "file" }

RECURSIVE SortedSeq(_)
\* The elements of a set of numbers as an increasing sequence.
SortedSeq(S) ==
    IF S = {} THEN <<>>
    ELSE LET m == CHOOSE x \in S : \A y \in S : x <= y
         IN <<m>> \o SortedSeq(S \ {m})

\* The listing of a library holding the names picked by S with attributes a.
Listing(S, a) ==
    LET idx == SortedSeq(S)
    IN [k \in 1..Len(idx) |->
          [name |-> NameUniverse[idx[k]], isDir |-> a[idx[k]].isDir,
           merged |-> a[idx[k]].merged, base |-> a[idx[k]].base]]

(***************************************************************************)
(* Library functions: strings.HasPrefix, path.Join/path.Clean.             *)
(***************************************************************************)
HasPrefix(s, prefix) ==
    /\ Len(s) >= Len(prefix)
    /\ SubSeq(s, 1, Len(prefix)) = prefix

RECURSIVE Split(_, _)
\* The pieces of s between occurrences of the character sep.
Split(s, sep) ==
    IF \A k \in 1..Len(s) : s[k] # sep THEN <<s>>
    ELSE LET p == CHOOSE k \in 1..Len(s) :
                    s[k] = sep /\ \A m \in 1..(k - 1) : s[m] # sep
         IN <<SubSeq(s, 1, p - 1)>> \o Split(SubSeq(s, p + 1, Len(s)), sep)

RECURSIVE JoinWith(_, _)
\* The strings of parts concatenated with sep between consecutive ones.
JoinWith(parts, sep) ==
    IF parts = <<>> THEN <<>>
    ELSE IF Len(parts) = 1 THEN parts[1]
    ELSE parts[1] \o sep \o JoinWith(Tail(parts), sep)

RECURSIVE Resolve(_, _, _)
\* path.Clean's walk over the components: "." and empty components vanish,
\* ".." removes the component before it (or stays, in a relative path).
Resolve(comps, stack, rooted) ==
    IF comps = <<>> THEN stack
    ELSE LET c == Head(comps)
             rest == Tail(comps)
         IN IF c = <<>> \/ c = <<".">> THEN Resolve(rest, stack, rooted)
            ELSE IF c = <<".", ".">>
            THEN IF stack # <<>> /\ stack[Len(stack)] # <<".", ".">>
                 THEN Resolve(rest, SubSeq(stack, 1, Len(stack) - 1), rooted)
                 ELSE IF rooted THEN Resolve(rest, stack, rooted)
                 ELSE Resolve(rest, Append(stack, c), rooted)
            ELSE Resolve(rest, Append(stack, c), rooted)

Clean(p) ==
    IF p = <<>> THEN <<".">>
    ELSE LET rooted == p[1] = "/"
             out == (IF rooted THEN <<"/">> ELSE <<>>)
                      \o JoinWith(Resolve(Split(p, "/"), <<>>, rooted), <<"/">>)
         IN IF out = <<>> THEN <<".">> ELSE out

\* path.Join: empty elements are ignored, the rest joined by "/" and cleaned.
Join(elems) ==
    LET nonEmpty == SelectSeq(elems, LAMBDA e : e # <<>>)
    IN IF nonEmpty = <<>> THEN <<>> ELSE Clean(JoinWith(nonEmpty, <<"/">>))

(***************************************************************************)
(* Functions of the program.                                               *)
(***************************************************************************)
RECURSIVE fmtOptions(_)
fmtOptions(options) ==
    IF options = <<>> THEN <<>>
    ELSE <<":">> \o Head(options) \o fmtOptions(Tail(options))

fmtRclone(remote, path, options) ==
    <<Quote>> \o remote \o <<":">> \o path \o fmtOptions(options) \o <<Quote>>

\* The rom's top-level directory, without the chosen subdirectory.
ParentWithoutSubdir(r) == r.DirPath

\* Rom.Parent
Parent(r) == Join(<<r.DirPath, r.SubdirName>>)

isBlacklisted(gameDirName) ==
    \E k \in 1..Len(invalidGameDirNames) : gameDirName = invalidGameDirNames[k]

isHidden(gameDirName) == HasPrefix(gameDirName, <<".">>)


\* The rcloneConfig literal: one local remote and one union remote.
initialRcloneConfig ==
    (remoteLocal :> (StrType :> StrLocal))
      @@ (remoteUnion :> (StrType :> StrUnion @@ StrUpstreams :> <<>>))

\* A variable name that leaves the remote's name out.
envKeyWithoutRemote(remoteName, remoteOptionName) ==
    StrEnvPrefix \o remoteOptionName

\* The name of the environment variable of one option of one remote.
envKey(remoteName, remoteOptionName) ==
    StrEnvPrefix \o remoteName \o <<"_">> \o remoteOptionName

\* os.Setenv rejects an empty key, a key holding "=" or NUL, a value holding NUL.
setenvFails(key, value) ==
    \/ key = <<>>
    \/ \E k \in 1..Len(key) : key[k] \in {"=", "NUL"}
    \/ \E k \in 1..Len(value) : value[k] = "NUL"

\* color.BlueString: the text between the escape sequences for blue and reset.
BlueString(s) == <<"ESC[34m">> \o s \o <<"ESC[0m">>

\* The line fmt.Sprintf("\"%s\" -> \"%s\"\n", ...) makes for a detected game.
detectedLine(gameDirName, subdirName) ==
    <<Quote>> \o BlueString(gameDirName) \o <<Quote, " ", "-", ">", " ", Quote>>
      \o subdirName \o <<Quote, "\n">>

\* An emptiness test that never fires.
noRomsNever(rs) == Len(rs) < 0

\* len(roms) == 0
noRoms(rs) == Len(rs) = 0

\* The separator placed after each read-only upstream.
chooseSeparator(rs) == IF Len(rs) > 1 THEN <<" ">> ELSE <<>>

\* The writable directory rendered like a rom, with the "ro" option.
writableUpstreamReadOnly(rwDirPath) ==
    fmtRclone(remoteLocal, rwDirPath, <<StrRo>>) \o <<" ">>

\* The text added to UPSTREAMS for the writable directory.
writableUpstream(rwDirPath) == fmtRclone(remoteLocal, rwDirPath, <<>>) \o <<" ">>

\* The text added to UPSTREAMS for one detected rom.
readOnlyUpstream(rom, sep) == fmtRclone(remoteLocal, Parent(rom), <<StrRo>>) \o sep

\* A rom put in front of the list instead of at its end.
prependRom(rs, dirPath, subdirName) ==
    <<[DirPath |-> dirPath, SubdirName |-> subdirName]>> \o rs

\* append(roms, Rom{...})
appendRom(rs, dirPath, subdirName) ==
    Append(rs, [DirPath |-> dirPath, SubdirName |-> subdirName])

(***************************************************************************)
(* State.                                                                  *)
(***************************************************************************)
VARIABLES
    app,            \* parsed command line: EnableWrite, InputDir, OutputDir
    readable,       \* whether the library directory can be listed
    disk,           \* the entries of the library directory, as ReadDir lists them
    rwDir,          \* what <library>/rw is on disk: "none", "file" or "dir"
    pc,             \* position in createFS
    files,          \* result of ioutil.ReadDir
    fileIdx,        \* position of the loop over files
    roms,           \* detected roms
    detectedGames,  \* report text
    statCalls,      \* paths handed to os.Stat, in call order
    rcloneConfig,   \* remote name -> option name -> value
    mkdirErr,       \* outcome of os.MkdirAll: "notcalled", "nil" or "error"
    separator,
    romIdx,         \* position of the loop over roms
    envTodo,        \* <<remote, option>> pairs the Setenv loops have yet to visit
    envRemote,      \* remote the outer Setenv loop is at
    env,            \* environment variables set by this process
    stdout,         \* lines printed
    cmd,            \* argument vector of the launched command, <<>> before launch
    exitCode,       \* -1 while running
    fatal           \* which log.Fatal ended the run, "" if none

vars ==
    <<app, readable, disk, rwDir, pc, files, fileIdx, roms, detectedGames,
      statCalls, rcloneConfig, mkdirErr, separator, romIdx, envTodo,
      envRemote, env, stdout, cmd, exitCode, fatal>>

\* os.Stat on a path of the library: the error and, without one, IsDir.
Stat(p) ==
    LET hits == { kd \in Kinds :
                    \E k \in 1..Len(disk) :
                       \/ /\ p = Join(<<app.InputDir, disk[k].name, StrMerged>>)
                          /\ kd = disk[k].merged
                       \/ /\ p = Join(<<app.InputDir, disk[k].name, StrBase>>)
                          /\ kd = disk[k].base }
        kind == IF hits = {} THEN "none" ELSE CHOOSE kd \in hits : TRUE
    IN [err |-> kind = "none", isDir |-> kind = "dir"]

RECURSIVE subdirLoop(_, _)
\* The loop over validSubdirNames from position k on: the position of the
\* subdirectory chosen (0 if none) and the paths it hands to os.Stat.
subdirLoop(dirPath, k) ==
    IF k > Len(validSubdirNames) THEN [found |-> 0, stats |-> <<>>]
    ELSE LET romDirPath == Join(<<dirPath, validSubdirNames[k]>>)
             stat == Stat(romDirPath)
         IN IF ~stat.err /\ stat.isDir
            THEN [found |-> k, stats |-> <<romDirPath>>]
            ELSE LET rest == subdirLoop(dirPath, k + 1)
                 IN [found |-> rest.found, stats |-> <<romDirPath>> \o rest.stats]

\* What <library>/rw is when the run starts.
rwKindOf(listing) ==
    IF \E k \in 1..Len(listing) : listing[k].name = StrRw
    THEN LET k == CHOOSE k \in 1..Len(listing) : listing[k].name = StrRw
         IN IF listing[k].isDir THEN "dir" ELSE "file"
    ELSE "none"

Init ==
    /\ app \in [EnableWrite : BOOLEAN, InputDir : InputDirs, OutputDir : {OutputDirArg}]
    /\ readable \in BOOLEAN
    /\ \E S \in SUBSET (1..Len(NameUniverse)) :
          /\ Cardinality(S) <= MaxChildren
          /\ readable \/ S = {}
          /\ \E a \in [S -> Children] :
                /\ \A n \in S : a[n] \in ChildrenOf(n)
                /\ disk = Listing(S, a)
    /\ rwDir = rwKindOf(disk)
    /\ pc = "start"
    /\ files = <<>>
    /\ fileIdx = 1
    /\ roms = <<>>
    /\ detectedGames = <<>>
    /\ statCalls = <<>>
    /\ rcloneConfig = <<>>
    /\ mkdirErr = "notcalled"
    /\ separator = <<>>
    /\ romIdx = 1
    /\ envTodo = {}
    /\ envRemote = <<>>
    /\ env = <<>>
    /\ stdout = <<>>
    /\ cmd = <<>>
    /\ exitCode = -1
    /\ fatal = ""

\* log.Fatal: report and exit with status 1.
logFatal(what) ==
    /\ pc' = "exit"
    /\ exitCode' = 1
    /\ fatal' = what

\* Lines 100-107: list the library directory.
ReadDir ==
    /\ pc = "start"
    /\ IF ~readable
       THEN logFatal("ReadDir") /\ UNCHANGED files
       ELSE /\ files' = disk
            /\ pc' = "scan"
            /\ UNCHANGED <<exitCode, fatal>>
    /\ UNCHANGED <<app, readable, disk, rwDir, fileIdx, roms, detectedGames,
                   statCalls, rcloneConfig, mkdirErr, separator, romIdx,
                   envTodo, envRemote, env, stdout, cmd>>

\* Lines 118-164: one iteration of the loop over the directory entries.
ScanFile ==
    /\ pc = "scan"
    /\ fileIdx <= Len(files)
    /\ LET file == files[fileIdx]
           gameDirName == file.name
       IN IF ~file.isDir \/ isHidden(gameDirName) \/ isBlacklisted(gameDirName)
          THEN UNCHANGED <<roms, detectedGames, statCalls>>
          ELSE LET dirPath == Join(<<app.InputDir, gameDirName>>)
                   r == subdirLoop(dirPath, 1)
               IN /\ statCalls' = statCalls \o r.stats
                  /\ IF r.found = 0
                     THEN UNCHANGED <<roms, detectedGames>>
                     ELSE /\ roms' = appendRom(roms, dirPath, validSubdirNames[r.found])
                          /\ detectedGames' =
                               detectedGames
                                 \o detectedLine(gameDirName, validSubdirNames[r.found])
    /\ fileIdx' = fileIdx + 1
    /\ UNCHANGED <<app, readable, disk, rwDir, pc, files, rcloneConfig, mkdirErr,
                   separator, romIdx, envTodo, envRemote, env, stdout, cmd,
                   exitCode, fatal>>

\* Lines 166-185: after the loop, quit if nothing was detected; otherwise
\* print the report and build the configuration literal.
CheckRoms ==
    /\ pc = "scan"
    /\ fileIdx > Len(files)
    /\ IF noRoms(roms)
       THEN logFatal("NoGames") /\ UNCHANGED <<stdout, rcloneConfig>>
       ELSE /\ stdout' = stdout \o <<"Games:", detectedGames>>
            /\ rcloneConfig' = initialRcloneConfig
            /\ pc' = "write"
            /\ UNCHANGED <<exitCode, fatal>>
    /\ UNCHANGED <<app, readable, disk, rwDir, files, fileIdx, roms,
                   detectedGames, statCalls, mkdirErr, separator, romIdx,
                   envTodo, envRemote, env, cmd>>

\* os.MkdirAll(<library>/rw): nil when the directory is there, an error when
\* a non-directory is in the way; otherwise the creation succeeds or fails.
\* The code discards the returned error.
MkdirAllRw ==
    CASE rwDir = "dir" -> mkdirErr' = "nil" /\ UNCHANGED rwDir
      [] rwDir = "file" -> mkdirErr' = "error" /\ UNCHANGED rwDir
      [] rwDir = "none" ->
            \/ mkdirErr' = "nil" /\ rwDir' = "dir"
            \/ mkdirErr' = "error" /\ UNCHANGED rwDir

\* Lines 187-198: the writable upstream, then the separator.
EnableWriteStep ==
    /\ pc = "write"
    /\ IF app.EnableWrite
       THEN LET rwDirPath == Join(<<app.InputDir, StrRw>>)
            IN /\ MkdirAllRw
               /\ rcloneConfig' =
                    [rcloneConfig EXCEPT ![remoteUnion][StrUpstreams] =
                        @ \o writableUpstream(rwDirPath)]
       ELSE UNCHANGED <<rwDir, mkdirErr, rcloneConfig>>
    /\ separator' = chooseSeparator(roms)
    /\ romIdx' = 1
    /\ pc' = "render"
    /\ UNCHANGED <<app, readable, disk, files, fileIdx, roms, detectedGames,
                   statCalls, envTodo, envRemote, env, stdout, cmd, exitCode,
                   fatal>>

\* Lines 201-203: one iteration of the loop over the detected roms.
AddUpstream ==
    /\ pc = "render"
    /\ romIdx <= Len(roms)
    /\ rcloneConfig' =
         [rcloneConfig EXCEPT ![remoteUnion][StrUpstreams] =
             @ \o readOnlyUpstream(roms[romIdx], separator)]
    /\ romIdx' = romIdx + 1
    /\ UNCHANGED <<app, readable, disk, rwDir, pc, files, fileIdx, roms,
                   detectedGames, statCalls, mkdirErr, separator, envTodo,
                   envRemote, env, stdout, cmd, exitCode, fatal>>

\* The <<remote, option>> pairs of a configuration.
configPairs(config) ==
    { <<r, o>> \in (DOMAIN config) \X {StrType, StrUpstreams} : o \in DOMAIN config[r] }

\* Line 206: the loop over the roms is over, the loops over the
\* configuration begin.
StartSetenv ==
    /\ pc = "render"
    /\ romIdx > Len(roms)
    /\ envTodo' = configPairs(rcloneConfig)
    /\ pc' = "env"
    /\ UNCHANGED <<app, readable, disk, rwDir, files, fileIdx, roms,
                   detectedGames, statCalls, rcloneConfig, mkdirErr, separator,
                   romIdx, envRemote, env, stdout, cmd, exitCode, fatal>>

\* Lines 206-213: one os.Setenv. Go ranges over a map in no fixed order; the
\* inner loop finishes a remote's options before the outer loop moves on.
Setenv ==
    /\ pc = "env"
    /\ \E pair \in envTodo :
          /\ (\E q \in envTodo : q[1] = envRemote) => pair[1] = envRemote
          /\ LET key == envKey(pair[1], pair[2])
                 value == rcloneConfig[pair[1]][pair[2]]
             IN IF setenvFails(key, value)
                THEN logFatal("Setenv") /\ UNCHANGED <<env, envTodo, envRemote>>
                ELSE /\ env' = (key :> value) @@ env
                     /\ envTodo' = envTodo \ {pair}
                     /\ envRemote' = IF envTodo = {pair} THEN <<>> ELSE pair[1]
                     /\ UNCHANGED <<pc, exitCode, fatal>>
    /\ UNCHANGED <<app, readable, disk, rwDir, files, fileIdx, roms,
                   detectedGames, statCalls, rcloneConfig, mkdirErr, separator,
                   romIdx, stdout, cmd>>

\* Lines 216-222: build the rclone command and start it.
RunRclone ==
    /\ pc = "env"
    /\ envTodo = {}
    /\ cmd' = <<StrRclone, StrMount, remoteUnion \o <<":">>, app.OutputDir>>
    /\ stdout' = Append(stdout, "Rclone command output:")
    /\ pc' = "mounted"
    /\ UNCHANGED <<app, readable, disk, rwDir, files, fileIdx, roms,
                   detectedGames, statCalls, rcloneConfig, mkdirErr, separator,
                   romIdx, envTodo, envRemote, env, exitCode, fatal>>

\* Lines 222-226: cmd.Run returns, with or without an error.
RcloneReturns ==
    /\ pc = "mounted"
    /\ \E failed \in BOOLEAN :
          IF failed
          THEN logFatal("Run")
          ELSE pc' = "exit" /\ exitCode' = 0 /\ UNCHANGED fatal
    /\ UNCHANGED <<app, readable, disk, rwDir, files, fileIdx, roms,
                   detectedGames, statCalls, rcloneConfig, mkdirErr, separator,
                   romIdx, envTodo, envRemote, env, stdout, cmd>>

Next ==
    \/ ReadDir
    \/ ScanFile
    \/ CheckRoms
    \/ EnableWriteStep
    \/ AddUpstream
    \/ StartSetenv
    \/ Setenv
    \/ RunRclone
    \/ RcloneReturns

Spec == Init /\ [][Next]_vars

(***************************************************************************)
(* Vocabulary of the properties: what the library holds, independently of  *)
(* the scan, and how the rendered UPSTREAMS text reads.                    *)
(***************************************************************************)
\* The library directory, whichever way --input spells it.
LibRoot == <<"/", "l">>

TitlePath(name) == LibRoot \o <<"/">> \o name

ContentPath(name, sub) == TitlePath(name) \o <<"/">> \o sub

\* An entry passes the filters: a directory, not hidden, not a reserved name.
Survives(c) ==
    /\ c.isDir
    /\ c.name[1] # "."
    /\ c.name # StrRw
    /\ c.name # StrTitles

HasCandidate(c) == c.merged = "dir" \/ c.base = "dir"

\* The subdirectory the priority list [merged, base] gives an entry.
FirstCandidate(c) == IF c.merged = "dir" THEN StrMerged ELSE StrBase

\* The titles the first n entries of the library resolve to, in listing order.
ExpectedTitles(n) ==
    LET m == SelectSeq(SubSeq(disk, 1, n), LAMBDA c : Survives(c) /\ HasCandidate(c))
    IN [k \in 1..Len(m) |-> [name |-> m[k].name, sub |-> FirstCandidate(m[k])]]

AllTitles == ExpectedTitles(Len(disk))

\* The scan over the directory entries is over.
ScanOver == pc \notin {"start", "scan"}

\* The mount command has been launched.
Launched == cmd # <<>>

RECURSIVE QuotedEntries(_)
\* The texts between successive pairs of double quotes of s.
QuotedEntries(s) ==
    LET qs == { k \in 1..Len(s) : s[k] = Quote }
    IN IF Cardinality(qs) < 2 THEN <<>>
       ELSE LET p == CHOOSE k \in qs : \A m \in qs : k <= m
                q == CHOOSE k \in qs \ {p} : \A m \in qs \ {p} : k <= m
            IN <<SubSeq(s, p + 1, q - 1)>> \o QuotedEntries(SubSeq(s, q + 1, Len(s)))

\* An upstream entry as rclone reads it: remote, path, options.
EntryRemote(e) == Split(e, ":")[1]

EntryPath(e) == Split(e, ":")[2]

EntryReadOnly(e) == Len(Split(e, ":")) = 3 /\ Split(e, ":")[3] = StrRo

UpstreamsKey == StrEnvPrefix \o remoteUnion \o <<"_">> \o StrUpstreams

\* The upstream list the mount tool is handed: the entries of the
\* RCLONE_CONFIG_ROMFUUNION_UPSTREAMS environment variable.
HandedUpstreams ==
    IF UpstreamsKey \in DOMAIN env THEN QuotedEntries(env[UpstreamsKey]) ELSE <<>>

\* The read-only entry of a resolved title.
ReadOnlyEntry(t) ==
    remoteLocal \o <<":">> \o ContentPath(t.name, t.sub) \o <<":">> \o StrRo

WritableEntry == remoteLocal \o <<":">> \o TitlePath(StrRw)

\* The remotes the environment declares with the given type.
BackendsOfType(t) ==
    { SubSeq(key, Len(StrEnvPrefix) + 1, Len(key) - Len(StrType) - 1) :
        key \in { k \in DOMAIN env :
                    /\ HasPrefix(k, StrEnvPrefix)
                    /\ Len(k) > Len(StrEnvPrefix) + Len(StrType)
                    /\ SubSeq(k, Len(k) - Len(StrType), Len(k)) = <<"_">> \o StrType
                    /\ env[k] = t } }

(***************************************************************************)
(* Properties.                                                             *)
(***************************************************************************)
\* The entries the scan has been through.
Scanned == IF pc = "start" THEN 0 ELSE fileIdx - 1

\* C1: every title that passes the filters resolves to the first name of
\* [merged, base] that is a directory under it, and no candidate is tested
\* after a match: with merged/ and base/ both directories the title resolves
\* to merged and base is never looked at; with a merged that is not a
\* directory and a base/ that is, it resolves to base.
C1_FirstCandidateWins ==
    /\ \A k \in 1..Scanned :
          LET c == disk[k]
              resolved == { roms[r].SubdirName :
                              r \in { x \in 1..Len(roms) :
                                        roms[x].DirPath = TitlePath(c.name) } }
              hasStat(p) == \E n \in 1..Len(statCalls) : statCalls[n] = p
          IN Survives(c) =>
               /\ c.merged = "dir" =>
                    /\ resolved = {StrMerged}
                    /\ ~hasStat(ContentPath(c.name, StrBase))
               /\ (c.merged # "dir" /\ c.base = "dir") => resolved = {StrBase}
    /\ \A r \in 1..Len(roms) :
          \E k \in 1..Scanned :
             /\ roms[r].DirPath = TitlePath(disk[k].name)
             /\ HasCandidate(disk[k])
             /\ roms[r].SubdirName = FirstCandidate(disk[k])

\* Both cases of C1 in one scan: a title with merged/ and base/, and a title
\* whose merged is a file and whose base/ is a directory.
C1_Witness ==
    /\ ScanOver
    /\ Len(roms) = 2
    /\ \E k \in 1..Len(disk) :
          Survives(disk[k]) /\ disk[k].merged = "dir" /\ disk[k].base = "dir"
    /\ \E k \in 1..Len(disk) :
          Survives(disk[k]) /\ disk[k].merged = "file" /\ disk[k].base = "dir"

\* C2: no rom comes from an entry that is not a directory, is hidden, or is
\* named rw or titles, whatever that entry holds; a library of such entries
\* only yields no rom and the run ends with the no-games error.
C2_FilteredNeverResolved ==
    /\ \A r \in 1..Len(roms) :
          \A k \in 1..Len(disk) :
             ~Survives(disk[k]) => roms[r].DirPath # TitlePath(disk[k].name)
    /\ (\A k \in 1..Len(disk) : ~Survives(disk[k])) =>
          /\ roms = <<>>
          /\ (ScanOver /\ readable) => (pc = "exit" /\ fatal = "NoGames")

\* A scanned library of a rw/ directory holding merged/ and base/ and a
\* hidden directory holding them too.
C2_Witness ==
    /\ ScanOver
    /\ Len(disk) = 2
    /\ \A k \in 1..Len(disk) :
          /\ disk[k].isDir /\ disk[k].merged = "dir"
          /\ disk[k].name \in {StrRw, <<".", "h">>}

\* C3: the roms are exactly the scanned entries that pass the filters and
\* have a candidate, once each, in listing order; an entry without a
\* candidate is left out and the scan goes on to the entries after it.
C3_RomsAreMatchingEntriesInOrder ==
    /\ Len(roms) = Len(ExpectedTitles(Scanned))
    /\ \A r \in 1..Len(roms) :
          roms[r].DirPath = TitlePath(ExpectedTitles(Scanned)[r].name)
    /\ (ScanOver /\ readable) => Scanned = Len(disk)
    /\ fatal = "NoGames" => AllTitles = <<>>

\* A title without candidates followed by a title that resolves, and the run
\* got as far as the mount.
C3_Witness ==
    /\ Launched
    /\ Len(disk) = 2
    /\ Survives(disk[1]) /\ ~HasCandidate(disk[1])
    /\ Len(roms) = 1
    /\ roms[1].DirPath = TitlePath(disk[2].name)

\* C4: with EnableWrite and at least one title, the upstream list handed to
\* the mount tool is the writable <library>/rw entry, without ":ro", followed
\* by one ":ro" entry per resolved title in scan order: 1 + N entries, of
\* which exactly the first is read-write.
C4_WritableFirstThenReadOnly ==
    (Launched /\ app.EnableWrite /\ AllTitles # <<>>) =>
        /\ Len(HandedUpstreams) = 1 + Len(AllTitles)
        /\ HandedUpstreams[1] = WritableEntry
        /\ \A k \in 1..Len(AllTitles) :
              HandedUpstreams[k + 1] = ReadOnlyEntry(AllTitles[k])
        /\ { k \in 1..Len(HandedUpstreams) : ~EntryReadOnly(HandedUpstreams[k]) } = {1}

\* The mount launched with the writable entry and two titles behind it.
C4_Witness ==
    /\ Launched
    /\ app.EnableWrite
    /\ Len(AllTitles) = 2
    /\ Len(HandedUpstreams) = 3

\* C5: without EnableWrite the upstream list handed to the mount tool holds
\* one ":ro" entry per resolved title, in scan order, each on the title's
\* directory joined with its chosen subdirectory, and no <library>/rw entry.
C5_ReadOnlyOnly ==
    (Launched /\ ~app.EnableWrite) =>
        /\ Len(HandedUpstreams) = Len(AllTitles)
        /\ \A k \in 1..Len(HandedUpstreams) :
              /\ HandedUpstreams[k] = ReadOnlyEntry(AllTitles[k])
              /\ EntryReadOnly(HandedUpstreams[k])
              /\ EntryPath(HandedUpstreams[k]) # TitlePath(StrRw)

\* The mount launched read-only over two titles, one of them with a space in
\* its name.
C5_Witness ==
    /\ Launched
    /\ ~app.EnableWrite
    /\ Len(HandedUpstreams) = 2
    /\ \E k \in 1..Len(AllTitles) : AllTitles[k].name = <<"a", " ", "b">>

\* The roms have all been rendered into UPSTREAMS.
Rendered == pc \in {"env", "mounted"} \/ Launched

\* The quoted ":ro" entries of the titles joined by single spaces.
JoinedReadOnlyEntries ==
    JoinWith([k \in 1..Len(AllTitles) |->
                <<Quote>> \o ReadOnlyEntry(AllTitles[k]) \o <<Quote>>], <<" ">>)

\* C6: with N >= 1 titles and without EnableWrite, the rendered UPSTREAMS
\* text is the N quoted ":ro" entries with one space between consecutive
\* entries and nowhere else: nothing follows the last entry.
C6_SingleSpacesBetweenEntriesOnly ==
    (Rendered /\ ~app.EnableWrite /\ Len(AllTitles) >= 1) =>
        rcloneConfig[remoteUnion][StrUpstreams] = JoinedReadOnlyEntries

\* C7: a scan that resolves no title ends the run in the no-games error with
\* exit status 1 and without a mount; the mount is launched only once a
\* non-empty list of roms has been rendered whole and exported.
C7_NoTitlesNoMount ==
    /\ (ScanOver /\ readable /\ AllTitles = <<>>) =>
          /\ pc = "exit"
          /\ fatal = "NoGames"
          /\ exitCode = 1
          /\ ~Launched
    /\ Launched =>
          /\ AllTitles # <<>>
          /\ romIdx = Len(roms) + 1
          /\ Len(roms) = Len(AllTitles)
          /\ UpstreamsKey \in DOMAIN env
          /\ env[UpstreamsKey] = rcloneConfig[remoteUnion][StrUpstreams]
          /\ \A k \in 1..Len(AllTitles) :
                \E n \in 1..Len(HandedUpstreams) :
                   HandedUpstreams[n] = ReadOnlyEntry(AllTitles[k])

\* The run over an empty library has ended in the no-games error.
C7_Witness ==
    /\ readable
    /\ disk = <<>>
    /\ pc = "exit"
    /\ fatal = "NoGames"

\* C8: when EnableWrite is set and creating <library>/rw fails, the run ends
\* fatally with exit status 1 and the mount is never launched.
C8_MkdirFailureIsFatal ==
    (app.EnableWrite /\ mkdirErr = "error") =>
        /\ pc = "exit"
        /\ exitCode = 1
        /\ ~Launched

\* The physical paths the handed upstream list refers to.
UpstreamPaths == { EntryPath(HandedUpstreams[k]) : k \in 1..Len(HandedUpstreams) }

\* C9 as stated: as many local backends are declared as the upstream list
\* has distinct paths, plus one union backend.
C9_OneLocalBackendPerPath ==
    Launched =>
        /\ Cardinality(BackendsOfType(StrLocal)) = Cardinality(UpstreamPaths)
        /\ Cardinality(BackendsOfType(StrUnion)) = 1

\* The upstream list of C4 and C5: the writable entry if EnableWrite, then
\* the titles' read-only entries.
ExpectedUpstreams ==
    (IF app.EnableWrite THEN <<WritableEntry>> ELSE <<>>)
      \o [k \in 1..Len(AllTitles) |-> ReadOnlyEntry(AllTitles[k])]

\* C9 amended: the configuration handed to the mount tool declares exactly
\* one local backend, ROMFULOCAL, which every upstream path goes through, and
\* exactly one union backend, ROMFUUNION, whose upstream list is the ordered,
\* access-annotated sequence.
C9_OneSharedLocalBackend ==
    Launched =>
        /\ BackendsOfType(StrLocal) = {remoteLocal}
        /\ BackendsOfType(StrUnion) = {remoteUnion}
        /\ \A k \in 1..Len(HandedUpstreams) :
              EntryRemote(HandedUpstreams[k]) = remoteLocal
        /\ HandedUpstreams = ExpectedUpstreams

\* The mount launched over three distinct paths behind the one local backend.
C9_Witness ==
    /\ Launched
    /\ Cardinality(UpstreamPaths) = 3
    /\ Cardinality(BackendsOfType(StrLocal)) = 1

\* C10: a run that ends because the library cannot be listed or because no
\* title resolved has created no <library>/rw, has not called MkdirAll, and
\* has set no environment variable, EnableWrite or not.
C10_AbortLeavesWorldUnchanged ==
    (~readable \/ (ScanOver /\ AllTitles = <<>>)) =>
        /\ rwDir = rwKindOf(disk)
        /\ mkdirErr = "notcalled"
        /\ DOMAIN env = {}
        /\ ~Launched

\* A run with EnableWrite over a library without rw that resolved no title
\* has ended.
C10_Witness ==
    /\ pc = "exit"
    /\ fatal = "NoGames"
    /\ app.EnableWrite
    /\ Len(disk) > 0
    /\ rwDir = "none"

==========================================================================
